---------------------------- MODULE Spec2Model ----------------------------
(***************************************************************************)
(* Model of src/model.py: the battery-plant carbon sensitivity calculator.  *)
(*                                                                         *)
(* The program computes with Python numbers.  The model computes the same  *)
(* quantities exactly, as integers in a fixed unit:                        *)
(*   energy_gwh, total_cells          hundredths (power_pct / 100)         *)
(*   per-kWh CO2 and water            1e-4 kg/kWh, m3/kWh                  *)
(*   CO2 (t), water (m3), quantities  1e-5, as wide numbers                *)
(*   cost                             1/105 GBP, as wide numbers           *)
(* A wide number <<hi, lo>> stands for hi * Base + lo with 0 <= lo < Base; *)
(* it carries the products that do not fit a 32-bit integer.  Rounding of  *)
(* binary floating point is not modelled.                                  *)
(***************************************************************************)
EXTENDS Integers, Sequences, FiniteSets, TLC

VARIABLES
  pc,                       \* position of the script, or of the called function
  args,                     \* arguments of the function under call
  ret,                      \* what the call returned
  first_ret,                \* what the first of two equal calls returned
  uk_material_sourcing,     \* module-level names of lines 4-5, 72-93
  india_material_sourcing,
  todo,                     \* years of YEARS the loop has not reached yet
  form,                     \* widget values read by the current iteration
  uk_results,
  india_results,
  year_materials,
  cumulative_materials,
  year_data,
  annual_materials_list,
  cumulative_df,
  cumulative_co2,           \* the column df["Cumulative CO2"]
  materials_combined        \* the rows of the combined materials table

vars == <<pc, args, ret, first_ret, uk_material_sourcing,
          india_material_sourcing, todo,
          form, uk_results, india_results, year_materials,
          cumulative_materials, year_data, annual_materials_list,
          cumulative_df, cumulative_co2,
                 materials_combined>>

loop_vars == <<first_ret, uk_material_sourcing, india_material_sourcing, todo,
               form,
               uk_results, india_results, year_materials,
               cumulative_materials, year_data, annual_materials_list,
               cumulative_df, cumulative_co2,
                 materials_combined>>

-----------------------------------------------------------------------------
(* Exact arithmetic on wide numbers.                                       *)

Base == 1000 * 1000

Half == 10 * 10 * 10

W(n) == <<n \div Base, n % Base>>

WZero == <<0, 0>>

WAdd(a, b) ==
  LET lo == a[2] + b[2]
  IN  <<a[1] + b[1] + (lo \div Base), lo % Base>>

\* x * y for integers whose halves' products fit 32 bits.
WMul(x, y) ==
  LET x1 == x \div Half
      x0 == x % Half
      y1 == y \div Half
      y0 == y % Half
      mid == x1 * y0 + x0 * y1
      lo == (mid % Half) * Half + x0 * y0
  IN  <<x1 * y1 + (mid \div Half) + (lo \div Base), lo % Base>>

WNonNeg(a) == a[1] >= 0

WIsZero(a) == a = WZero

RECURSIVE SumSet(_, _)
SumSet(f, S) ==
  IF S = {} THEN 0
  ELSE LET x == CHOOSE y \in S : TRUE
       IN  f[x] + SumSet(f, S \ {x})

RECURSIVE WSumSet(_, _)
WSumSet(f, S) ==
  IF S = {} THEN WZero
  ELSE LET x == CHOOSE y \in S : TRUE
       IN  WAdd(f[x], WSumSet(f, S \ {x}))

RECURSIVE WSumSeq(_)
WSumSeq(s) ==
  IF s = <<>> THEN WZero ELSE WAdd(Head(s), WSumSeq(Tail(s)))

RECURSIVE SumSeq(_)
SumSeq(s) ==
  IF s = <<>> THEN 0 ELSE Head(s) + SumSeq(Tail(s))

EmptyDict == [k \in {} |-> 0]

\* dict.get(key, default)
Get(dict, key, default) ==
  IF key \in DOMAIN dict THEN dict[key] ELSE default

-----------------------------------------------------------------------------
(* Reference tables (lines 105-296).  co2 and water in hundredths, qty in  *)
(* tenths.                                                                 *)

CELL_TYPES == <<"NMC Cell 1", "NMC Cell 2", "LFP">>

SILICON_PCTS == <<3, 5, 10, 15, 20>>

MATERIAL_SOURCES ==
  "pCam Nickel" :> (
      "Nickel sulfate hexahydrate produced via carbonyl in Canada from nickel sulfate ore from Canada" :>
        [co2 |-> 381, water |-> 922] @@
      "Nickel sulfate hexahydrate produced via heap leaching in Finland from MSP from Finland" :>
        [co2 |-> 473, water |-> 546] @@
      "Nickel sulfate hexahydrate produced via HPAL in Brazil from MSP from Brazil" :>
        [co2 |-> 906, water |-> 231] @@
      "Nickel sulfate hexahydrate produced via HPAL in China from Nickel laterite ore from Australia" :>
        [co2 |-> 1081, water |-> 1039] @@
      "Nickel sulfate hexahydrate produced via ammonia refining in Australia from sulfide ore from Australia" :>
        [co2 |-> 1292, water |-> 344] @@
      "Nickel sulfate hexahydrate from global average" :>
        [co2 |-> 1325, water |-> 0] @@
      "Nickel sulfate hexahydrate produced via electrorefining in China from nickel sulfide ore from China" :>
        [co2 |-> 1360, water |-> -144] @@
      "Nickel sulfate produced via pyrometallurgy in Canada from nickel sulfide ore from Canada" :>
        [co2 |-> 1832, water |-> 1953] @@
      "Nickel sulfate hexahydrate produced via HPAL in China from MHP from New Caledonia" :>
        [co2 |-> 2082, water |-> 486] @@
      "Nickel sulfate hexahydrate produced via RKEF in Indonesia (hydro electricity) from nickel laterite ore from Indonesia" :>
        [co2 |-> 4004, water |-> 3033] @@
      "Nickel sulfate hexahydrate produced via HPAL in China from nickel laterite ore from Madagascar" :>
        [co2 |-> 4100, water |-> 58] @@
      "Nickel sulfate produced via HPAL in Brazil from nickel laterite ore from Brazil" :>
        [co2 |-> 4120, water |-> 1050] @@
      "Nickel sulfate produced via pyrometallurgy in China from nickel sulfide ore from China" :>
        [co2 |-> 6182, water |-> -655]) @@
  "Synthetic Graphite" :> (
      "Anode-grade synthetic graphite in Sichuan, China from petroleum coke (powder)" :>
        [co2 |-> 574, water |-> 61] @@
      "Anode-grade synthetic graphite in US - SERC from Petroleum Coke (powder)" :>
        [co2 |-> 876, water |-> 145] @@
      "Anode-grade synthetic graphite in Sichuan (Calcination) and Taiwan (Graphitisation) from petroleum coke (powder)" :>
        [co2 |-> 1205, water |-> 123] @@
      "Synthetic Graphite - Freyr Custom Route" :>
        [co2 |-> 1290, water |-> 0] @@
      "Anode-grade synthetic graphite in Inner Mongolia (Calcination) and Taiwan (Graphitisation) from petroleum coke (powder)" :>
        [co2 |-> 1383, water |-> 203] @@
      "Anode-grade synthetic graphite from global average" :>
        [co2 |-> 1528, water |-> 341]) @@
  "pCam Manganese" :> (
      "Manganese sulfate monohydrate from global average (EF3.0)" :>
        [co2 |-> 32, water |-> 7] @@
      "HPMSM produced via direct ore processing in Gabon with manganese ore from Gabon" :>
        [co2 |-> 90, water |-> 80] @@
      "HPMSM produced via direct ore processing (calcination not included) in South Africa with manganese ore from South Africa" :>
        [co2 |-> 92, water |-> 82] @@
      "HPMSM produced via EMM Dissolution in China with manganese ore from China" :>
        [co2 |-> 100, water |-> 19] @@
      "HPMSM produced via direct ore processing in Australia with manganese ore from Australia" :>
        [co2 |-> 110, water |-> 81] @@
      "HPMSM produced via direct ore processing in China with manganese ore from Australia" :>
        [co2 |-> 114, water |-> 83] @@
      "HPMSM produced via direct ore processing in China with manganese ore from India" :>
        [co2 |-> 115, water |-> 83] @@
      "HPMSM produced via direct ore processing in China with manganese ore from Gabon" :>
        [co2 |-> 121, water |-> 83] @@
      "HPMSM produced via direct ore processing in China with manganese ore from Brazil" :>
        [co2 |-> 122, water |-> 82] @@
      "HPMSM produced via direct ore processing in Australia with manganese ore from Gabon" :>
        [co2 |-> 128, water |-> 82] @@
      "HPMSM produced via direct ore processing in China with manganese ore from South Africa" :>
        [co2 |-> 128, water |-> 84]) @@
  "CAM Lithium" :> (
      "Lithium hydroxide monohydrate produced via evaporation and processing brine of salar brine in Chile" :>
        [co2 |-> 419, water |-> 122] @@
      "Lithium hydroxide monohydrate produced via processing in Canada of spodumene concentrate from Canada" :>
        [co2 |-> 525, water |-> 334] @@
      "Lithium hydroxide monohydrate from global average" :>
        [co2 |-> 902, water |-> 193] @@
      "Lithium hydroxide monohydrate produced via processing in US of spodumene ore from US" :>
        [co2 |-> 918, water |-> 173] @@
      "Lithium hydroxide - Freyr Custom Route" :>
        [co2 |-> 988, water |-> 0] @@
      "Lithium hydroxide monohydrate produced via processing in China of spodumene concentrate from Australia" :>
        [co2 |-> 1004, water |-> 191] @@
      "Lithium hydroxide monohydrate produced via processing in the US of sedimentary clays from US" :>
        [co2 |-> 1259, water |-> 143]) @@
  "pCam Cobalt" :> (
      "Cobalt sulfate heptahydrate from global average" :>
        [co2 |-> 180, water |-> 235] @@
      "Cobalt sulfate heptahydrate produced in China via HPAL from MHP with laterite ore from Indonesia" :>
        [co2 |-> 243, water |-> 235] @@
      "Cobalt sulfate heptahydrate produced in Indonesia via HPAL from MHP with laterite ore from Indonesia" :>
        [co2 |-> 284, water |-> 235])

materials_data ==
  "NMC Cell 1" :> [
    materials |-> (
        "NCM" :> [qty |-> 5, unit |-> "kg"] @@
        "SP-01" :> [qty |-> 5, unit |-> "kg"] @@
        "PVDF-1" :> [qty |-> 5, unit |-> "kg"] @@
        "NMP" :> [qty |-> 5, unit |-> "kg"] @@
        "Boehmite" :> [qty |-> 5, unit |-> "kg"] @@
        "PVDF-2" :> [qty |-> 5, unit |-> "kg"] @@
        "Graphite" :> [qty |-> 5, unit |-> "kg"] @@
        "SWCNT" :> [qty |-> 5, unit |-> "kg"] @@
        "PAA" :> [qty |-> 5, unit |-> "kg"] @@
        "Anoder Binder" :> [qty |-> 5, unit |-> "kg"] @@
        "Thickener (CMC)" :> [qty |-> 5, unit |-> "kg"] @@
        "Al Foil (Cell 1)" :> [qty |-> 5, unit |-> "kg"] @@
        "Cu Foil (Cell 1)" :> [qty |-> 5, unit |-> "kg"] @@
        "LT Electrolyte" :> [qty |-> 5, unit |-> "kg"] @@
        "Separator" :> [qty |-> 35, unit |-> "m2"] @@
        "Tape" :> [qty |-> 10, unit |-> "m2"] @@
        "Aluminium Can (Cell 1)" :> [qty |-> 10, unit |-> "Units"] @@
        "Positive Top-cap (Cell 1)" :> [qty |-> 10, unit |-> "Units"] @@
        "Negative Top-cap (Cell 1)" :> [qty |-> 10, unit |-> "Units"] @@
        "Blue Film (Cell 1)" :> [qty |-> 10, unit |-> "m2"] @@
        "Positive Vent Cover (Cell 1)" :> [qty |-> 10, unit |-> "Units"] @@
        "Negative Vent Cover (Cell 1)" :> [qty |-> 10, unit |-> "Units"] @@
        "Rubber Nail" :> [qty |-> 10, unit |-> "Units"] @@
        "Al Nail (Seal Pin)" :> [qty |-> 10, unit |-> "Units"] @@
        "Insulation Bracket (Cell 1)" :> [qty |-> 10, unit |-> "Units"] @@
        "Mylar Stack Wrap (Cell 1)" :> [qty |-> 10, unit |-> "Units"] @@
        "Mylar Reinforcing Strip (Cell 1)" :> [qty |-> 10, unit |-> "Units"] @@
        "MWCNT" :> [qty |-> 5, unit |-> "kg"] @@
        "Plasticiser" :> [qty |-> 5, unit |-> "kg"] @@
        "Mylar Tape" :> [qty |-> 5, unit |-> "m2"] @@
        "Welding Printing Adhesive" :> [qty |-> 5, unit |-> "m2"] @@
        "QR Code Tape" :> [qty |-> 5, unit |-> "m2"] @@
        "Battery Core Forming Nail" :> [qty |-> 20, unit |-> "Units"]),
    base_co2_water_per_kwh |-> [co2 |-> 6885, water |-> 2414],
    silicon_co2_water_per_kwh |-> (
        3 :> [co2 |-> 200, water |-> 500] @@
        5 :> [co2 |-> 300, water |-> 600] @@
        10 :> [co2 |-> 400, water |-> 700] @@
        15 :> [co2 |-> 500, water |-> 800] @@
        20 :> [co2 |-> 600, water |-> 900])] @@
  "NMC Cell 2" :> [
    materials |-> (
        "NCM - CAM powder" :> [qty |-> 2, unit |-> "kg"] @@
        "SP-01 - carbon black cam" :> [qty |-> 2, unit |-> "kg"] @@
        "PVDF-1 Cathode" :> [qty |-> 2, unit |-> "kg"] @@
        "NMP - solvent" :> [qty |-> 2, unit |-> "kg"] @@
        "Boehmite" :> [qty |-> 2, unit |-> "kg"] @@
        "PVDF-2" :> [qty |-> 2, unit |-> "kg"] @@
        "Graphite - 100% synthetic" :> [qty |-> 2, unit |-> "kg"] @@
        "SWCNT Single wall Carbon Nano tube" :> [qty |-> 2, unit |-> "kg"] @@
        "MWCNT Multiwall carbon nano tube" :> [qty |-> 2, unit |-> "kg"] @@
        "PAA - anode binder" :> [qty |-> 2, unit |-> "kg"] @@
        "Anoder Binder - SBR" :> [qty |-> 2, unit |-> "kg"] @@
        "Thickener (CMC)" :> [qty |-> 2, unit |-> "kg"] @@
        "Al Foil (Cell 2)" :> [qty |-> 2, unit |-> "kg"] @@
        "Cu Foil (Cell 2)" :> [qty |-> 2, unit |-> "kg"] @@
        "LT Electrolyte" :> [qty |-> 2, unit |-> "kg"] @@
        "Separator" :> [qty |-> 52, unit |-> "m2"] @@
        "Tape" :> [qty |-> 4, unit |-> "m2"] @@
        "Aluminium Can (Cell 2)" :> [qty |-> 10, unit |-> "Units"] @@
        "Positive Top-cap (Cell 2)" :> [qty |-> 10, unit |-> "Units"] @@
        "Negative Top-cap (Cell 2)" :> [qty |-> 10, unit |-> "Units"] @@
        "Blue Film (Cell 2)" :> [qty |-> 2, unit |-> "m2"] @@
        "Positive Vent Cover (Cell 2)" :> [qty |-> 10, unit |-> "Units"] @@
        "Negative Vent Cover (Cell 2)" :> [qty |-> 10, unit |-> "Units"] @@
        "Rubber Nail" :> [qty |-> 10, unit |-> "Units"] @@
        "Al Nail (Seal Pin)" :> [qty |-> 10, unit |-> "Units"] @@
        "Insulation Bracket (Cell 2)" :> [qty |-> 10, unit |-> "Units"] @@
        "Mylar Stack Wrap (Cell 2)" :> [qty |-> 10, unit |-> "Units"] @@
        "Mylar Reinforcing Strip (Cell 2)" :> [qty |-> 10, unit |-> "Units"] @@
        "Mylar Tape" :> [qty |-> 2, unit |-> "m2"] @@
        "Welding Printing Adhesive" :> [qty |-> 2, unit |-> "m2"] @@
        "QR Code Tape" :> [qty |-> 2, unit |-> "m2"] @@
        "Terminal Tape" :> [qty |-> 2, unit |-> "m2"] @@
        "PET Film" :> [qty |-> 2, unit |-> "m2"]),
    base_co2_water_per_kwh |-> [co2 |-> 6885, water |-> 2414],
    silicon_co2_water_per_kwh |-> (
        3 :> [co2 |-> 200, water |-> 300] @@
        5 :> [co2 |-> 300, water |-> 400] @@
        10 :> [co2 |-> 400, water |-> 500] @@
        15 :> [co2 |-> 500, water |-> 600] @@
        20 :> [co2 |-> 600, water |-> 700])] @@
  "LFP" :> [
    materials |-> (
        "Polypropylene" :> [qty |-> 3, unit |-> "kg"] @@
        "Aluminium Foil - Cathode" :> [qty |-> 3, unit |-> "kg"] @@
        "NMP Solvent - Cathode" :> [qty |-> 3, unit |-> "kg"] @@
        "SBR Binder - Cathode" :> [qty |-> 3, unit |-> "kg"] @@
        "Polyethylene Terephthalate" :> [qty |-> 3, unit |-> "kg"] @@
        "Anode Syn Graphite AAM" :> [qty |-> 3, unit |-> "kg"] @@
        "PVDF Binder - Anode" :> [qty |-> 3, unit |-> "kg"] @@
        "Cathode Active Material CAM + pCAM" :> [qty |-> 3, unit |-> "kg"] @@
        "Li" :> [qty |-> 3, unit |-> "kg"] @@
        "Can" :> [qty |-> 3, unit |-> "kg"] @@
        "NMP Solvent - Anode" :> [qty |-> 3, unit |-> "kg"] @@
        "CMC Binder - Anode" :> [qty |-> 3, unit |-> "kg"] @@
        "Carbon Black - Anode" :> [qty |-> 3, unit |-> "kg"] @@
        "SBR Binder - Anode" :> [qty |-> 3, unit |-> "kg"] @@
        "PVDF Binder - Cathode" :> [qty |-> 3, unit |-> "kg"] @@
        "Electrolyte" :> [qty |-> 3, unit |-> "kg"] @@
        "Copper Foil - Anode" :> [qty |-> 3, unit |-> "kg"] @@
        "Polyethylene - Separator" :> [qty |-> 3, unit |-> "kg"] @@
        "CMC Binder - Cathode" :> [qty |-> 3, unit |-> "kg"] @@
        "Carbon Black - Cathode" :> [qty |-> 3, unit |-> "kg"]),
    base_co2_water_per_kwh |-> [co2 |-> 7685, water |-> 3314]]

materials_order ==
  "NMC Cell 1" :> <<
      "NCM",
      "SP-01",
      "PVDF-1",
      "NMP",
      "Boehmite",
      "PVDF-2",
      "Graphite",
      "SWCNT",
      "PAA",
      "Anoder Binder",
      "Thickener (CMC)",
      "Al Foil (Cell 1)",
      "Cu Foil (Cell 1)",
      "LT Electrolyte",
      "Separator",
      "Tape",
      "Aluminium Can (Cell 1)",
      "Positive Top-cap (Cell 1)",
      "Negative Top-cap (Cell 1)",
      "Blue Film (Cell 1)",
      "Positive Vent Cover (Cell 1)",
      "Negative Vent Cover (Cell 1)",
      "Rubber Nail",
      "Al Nail (Seal Pin)",
      "Insulation Bracket (Cell 1)",
      "Mylar Stack Wrap (Cell 1)",
      "Mylar Reinforcing Strip (Cell 1)",
      "MWCNT",
      "Plasticiser",
      "Mylar Tape",
      "Welding Printing Adhesive",
      "QR Code Tape",
      "Battery Core Forming Nail">> @@
  "NMC Cell 2" :> <<
      "NCM - CAM powder",
      "SP-01 - carbon black cam",
      "PVDF-1 Cathode",
      "NMP - solvent",
      "Boehmite",
      "PVDF-2",
      "Graphite - 100% synthetic",
      "SWCNT Single wall Carbon Nano tube",
      "MWCNT Multiwall carbon nano tube",
      "PAA - anode binder",
      "Anoder Binder - SBR",
      "Thickener (CMC)",
      "Al Foil (Cell 2)",
      "Cu Foil (Cell 2)",
      "LT Electrolyte",
      "Separator",
      "Tape",
      "Aluminium Can (Cell 2)",
      "Positive Top-cap (Cell 2)",
      "Negative Top-cap (Cell 2)",
      "Blue Film (Cell 2)",
      "Positive Vent Cover (Cell 2)",
      "Negative Vent Cover (Cell 2)",
      "Rubber Nail",
      "Al Nail (Seal Pin)",
      "Insulation Bracket (Cell 2)",
      "Mylar Stack Wrap (Cell 2)",
      "Mylar Reinforcing Strip (Cell 2)",
      "Mylar Tape",
      "Welding Printing Adhesive",
      "QR Code Tape",
      "Terminal Tape",
      "PET Film">> @@
  "LFP" :> <<
      "Polypropylene",
      "Aluminium Foil - Cathode",
      "NMP Solvent - Cathode",
      "SBR Binder - Cathode",
      "Polyethylene Terephthalate",
      "Anode Syn Graphite AAM",
      "PVDF Binder - Anode",
      "Cathode Active Material CAM + pCAM",
      "Li",
      "Can",
      "NMP Solvent - Anode",
      "CMC Binder - Anode",
      "Carbon Black - Anode",
      "SBR Binder - Anode",
      "PVDF Binder - Cathode",
      "Electrolyte",
      "Copper Foil - Anode",
      "Polyethylene - Separator",
      "CMC Binder - Cathode",
      "Carbon Black - Cathode">>

PowerLawTable ==
  "100% Grid" :> (
      1650 :> 6237 @@
      2310 :> 6872 @@
      2500 :> 7031 @@
      3300 :> 7617 @@
      3500 :> 7748 @@
      4620 :> 8394 @@
      4950 :> 8563 @@
      5000 :> 8588 @@
      6600 :> 9304 @@
      6930 :> 9436 @@
      7000 :> 9463 @@
      7500 :> 9654 @@
      9240 :> 10253 @@
      10000 :> 10489 @@
      10500 :> 10638 @@
      14000 :> 11559 @@
      14700 :> 11723 @@
      15000 :> 11791 @@
      20000 :> 12812 @@
      21000 :> 12993 @@
      28000 :> 14118 @@
      29400 :> 14318 @@
      31500 :> 14606 @@
      42000 :> 15870 @@
      44100 :> 16095 @@
      58800 :> 17488) @@
  "PPA:Grid (70:30)" :> (
      1650 :> 2384 @@
      2310 :> 2724 @@
      2500 :> 2811 @@
      3300 :> 3138 @@
      3500 :> 3212 @@
      4620 :> 3586 @@
      4950 :> 3685 @@
      5000 :> 3700 @@
      6600 :> 4130 @@
      6930 :> 4211 @@
      7000 :> 4228 @@
      7500 :> 4345 @@
      9240 :> 4720 @@
      10000 :> 4870 @@
      10500 :> 4965 @@
      14000 :> 5565 @@
      14700 :> 5674 @@
      15000 :> 5719 @@
      20000 :> 6410 @@
      21000 :> 6536 @@
      28000 :> 7325 @@
      29400 :> 7468 @@
      31500 :> 7675 @@
      42000 :> 8603 @@
      44100 :> 8771 @@
      58800 :> 9831) @@
  "Grid+Gas (30% demand)" :> (
      1650 :> 6526 @@
      2310 :> 7811 @@
      2500 :> 8148 @@
      3300 :> 9451 @@
      3500 :> 9752 @@
      4620 :> 11311 @@
      4950 :> 11736 @@
      5000 :> 11799 @@
      6600 :> 13685 @@
      6930 :> 14047 @@
      7000 :> 14122 @@
      7500 :> 14653 @@
      9240 :> 16380 @@
      10000 :> 17086 @@
      10500 :> 17538 @@
      14000 :> 20451 @@
      14700 :> 20990 @@
      15000 :> 21218 @@
      20000 :> 24743 @@
      21000 :> 25396 @@
      28000 :> 29614 @@
      29400 :> 30396 @@
      31500 :> 31537 @@
      42000 :> 36775 @@
      44100 :> 37746 @@
      58800 :> 44016)

\* ENERGY_MIXES[name](x), x in hundredths of a GWh, in 1e-5 t.  The power law
\* a * x ** b is tabulated (PowerLawTable, whole tonnes) at the energies the
\* bounded inputs produce; the lambda's own guard "if x > 0 else 0" is kept.
ENERGY_MIXES_one_tonne_at_zero(name, x) ==
  IF x > 0 THEN WMul(PowerLawTable[name][x], 100000) ELSE W(100000)

ENERGY_MIXES(name, x) ==
  IF x > 0 THEN WMul(PowerLawTable[name][x], 100000) ELSE WZero

ENERGY_MIX_NAMES == DOMAIN PowerLawTable

-----------------------------------------------------------------------------
(* calculate_material_sourcing_impact (lines 329-354; this definition       *)
(* replaces the one of lines 302-327).  Result in 1e-4 per kWh.            *)

\* lines 342-347: the inner loop over sources.items()
CategoryTotalsNoFraction(material_category, sources) ==
  LET counted == {s \in DOMAIN sources :
                    /\ sources[s] > 0
                    /\ s \in DOMAIN MATERIAL_SOURCES[material_category]}
      data == MATERIAL_SOURCES[material_category]
  IN  [co2 |-> SumSet([s \in counted |-> data[s].co2 * sources[s] * 100], counted),
       water |-> SumSet([s \in counted |-> data[s].water * sources[s] * 100], counted),
       total_percentage |-> SumSet([s \in counted |-> sources[s]], counted)]

CategoryTotals(material_category, sources) ==
  LET counted == {s \in DOMAIN sources :
                    /\ sources[s] > 0
                    /\ s \in DOMAIN MATERIAL_SOURCES[material_category]}
      data == MATERIAL_SOURCES[material_category]
  IN  [co2 |-> SumSet([s \in counted |-> data[s].co2 * sources[s]], counted),
       water |-> SumSet([s \in counted |-> data[s].water * sources[s]], counted),
       total_percentage |-> SumSet([s \in counted |-> sources[s]], counted)]

\* line 350: only add if the percentages sum to 100% for this category
CategoryAdded(totals) == totals.total_percentage = 100

calculate_material_sourcing_impact(material_sourcing_mix) ==
  LET cats == {c \in DOMAIN material_sourcing_mix : c \in DOMAIN MATERIAL_SOURCES}
      totals == [c \in cats |-> CategoryTotals(c, material_sourcing_mix[c])]
      added == {c \in cats : CategoryAdded(totals[c])}
  IN  <<SumSet([c \in added |-> totals[c].co2], added),
        SumSet([c \in added |-> totals[c].water], added)>>

-----------------------------------------------------------------------------
(* calculate_site_metrics (lines 357-422)                                   *)

UK_MAX_GWH_PER_LINE == 50

OTHER_MAX_GWH_PER_LINE == 70

MAX_CELLS_PER_LINE == 300

DEFAULT_SILICON_PCT == 3

max_gwh_per_line_swapped(country) ==
  IF country = "UK" THEN OTHER_MAX_GWH_PER_LINE ELSE UK_MAX_GWH_PER_LINE

max_gwh_per_line(country) ==
  IF country = "UK" THEN UK_MAX_GWH_PER_LINE ELSE OTHER_MAX_GWH_PER_LINE

max_cells_per_line(country) ==
  IF country = "UK" THEN MAX_CELLS_PER_LINE ELSE MAX_CELLS_PER_LINE

KeyError == [raised |-> "KeyError"]

material_key(material_name, unit) == <<material_name, unit>>

\* lines 385-389: BOM aggregation of one cell type into site_materials
bom_aggregation_overwrite(site_materials, materials, cells_of_this_type) ==
  LET added == {material_key(m, materials[m].unit) : m \in DOMAIN materials}
      qty_of(k) == WMul(cells_of_this_type, materials[k[1]].qty)
  IN  [k \in DOMAIN site_materials \cup added |->
         IF k \in added THEN qty_of(k) ELSE site_materials[k]]

bom_aggregation(site_materials, materials, cells_of_this_type) ==
  LET added == {material_key(m, materials[m].unit) : m \in DOMAIN materials}
      qty_of(k) == WMul(cells_of_this_type, materials[k[1]].qty)
  IN  [k \in DOMAIN site_materials \cup added |->
         IF k \in added
           THEN WAdd(Get(site_materials, k, WZero), qty_of(k))
           ELSE site_materials[k]]

\* line 379: total_cells * (mix_percentage / 100), in 1e-4 cells
cells_of_this_type_floor_division(total_cells, mix_percentage) ==
  total_cells * ((mix_percentage \div 100) * 100)

cells_of_this_type(total_cells, mix_percentage) == total_cells * mix_percentage

\* line 407 without the factor 1e6: energy_gwh * (mix_percentage / 100), in
\* 1e-4 GWh
energy_for_this_cell_type(energy_gwh, mix_percentage) ==
  energy_gwh * mix_percentage

\* line 396: silicon adjustments (for NMCs)
has_silicon_every_type(cell_type) == TRUE

has_silicon(cell_type) == cell_type # "LFP"

\* lines 376-381: the two "continue" tests
skip_cell_type_never(mix_percentage, cells) == FALSE

skip_cell_type(mix_percentage, cells) == mix_percentage <= 0 \/ cells <= 0

\* lines 398-399: cell_data["silicon_co2_water_per_kwh"][silicon_pct]
silicon_lookup_default_row(cell_data, silicon_pct) ==
  IF "silicon_co2_water_per_kwh" \notin DOMAIN cell_data THEN KeyError
  ELSE IF silicon_pct \in DOMAIN cell_data.silicon_co2_water_per_kwh
    THEN [raised |-> "none",
          co2 |-> cell_data.silicon_co2_water_per_kwh[silicon_pct].co2,
          water |-> cell_data.silicon_co2_water_per_kwh[silicon_pct].water]
    ELSE [raised |-> "none",
          co2 |-> cell_data.silicon_co2_water_per_kwh[DEFAULT_SILICON_PCT].co2,
          water |-> cell_data.silicon_co2_water_per_kwh[DEFAULT_SILICON_PCT].water]

silicon_lookup(cell_data, silicon_pct) ==
  IF "silicon_co2_water_per_kwh" \notin DOMAIN cell_data THEN KeyError
  ELSE IF silicon_pct \in DOMAIN cell_data.silicon_co2_water_per_kwh
    THEN [raised |-> "none",
          co2 |-> cell_data.silicon_co2_water_per_kwh[silicon_pct].co2,
          water |-> cell_data.silicon_co2_water_per_kwh[silicon_pct].water]
    ELSE KeyError

\* lines 375-409: one iteration of the loop over cell_mix.items(); acc holds
\* site_materials, total_material_co2 and total_material_water.
cell_iteration(acc, cell_type, mix_percentage, energy_gwh, total_cells, silicon_pcts, material_sourcing) ==
  IF acc.raised # "none" THEN acc
  ELSE IF skip_cell_type(mix_percentage,
                         cells_of_this_type(total_cells, mix_percentage)) THEN acc
  ELSE IF cell_type \notin DOMAIN materials_data THEN KeyError
  ELSE LET
    cell_data == materials_data[cell_type]
    site_materials ==
      bom_aggregation(acc.site_materials, cell_data.materials,
                      cells_of_this_type(total_cells, mix_percentage))
    base == cell_data.base_co2_water_per_kwh
    silicon_pct == Get(silicon_pcts, cell_type, DEFAULT_SILICON_PCT)
    silicon == silicon_lookup(cell_data, silicon_pct)
    sourcing == IF cell_type \in DOMAIN material_sourcing
                  THEN calculate_material_sourcing_impact(material_sourcing[cell_type])
                  ELSE <<0, 0>>
    co2_per_kwh == IF has_silicon(cell_type)
                     THEN base.co2 * 100 + silicon.co2 * 100 + sourcing[1]
                     ELSE base.co2 * 100
    water_per_kwh == IF has_silicon(cell_type)
                       THEN base.water * 100 + silicon.water * 100 + sourcing[2]
                       ELSE base.water * 100
    \* energy_gwh * (mix_percentage / 100) * 1e6 kWh, times 1e-4 per kWh,
    \* / 1000: energy_gwh (1e-2) * mix_percentage * per_kwh (1e-4) is 1e-5 t
    energy_share == energy_for_this_cell_type(energy_gwh, mix_percentage)
  IN
  IF has_silicon(cell_type) /\ silicon.raised # "none" THEN KeyError
  ELSE [raised |-> "none",
        site_materials |-> site_materials,
        total_material_co2 |->
          WAdd(acc.total_material_co2, WMul(energy_share, co2_per_kwh)),
        total_material_water |->
          WAdd(acc.total_material_water, WMul(energy_share, water_per_kwh))]

RECURSIVE cell_loop(_, _, _, _, _, _, _)
cell_loop(acc, items, cell_mix, energy_gwh, total_cells, silicon_pcts, material_sourcing) ==
  IF items = <<>> THEN acc
  ELSE cell_loop(
         cell_iteration(acc, Head(items), cell_mix[Head(items)], energy_gwh,
                        total_cells, silicon_pcts, material_sourcing),
         Tail(items), cell_mix, energy_gwh, total_cells, silicon_pcts,
         material_sourcing)

\* the items of a cell_mix dict, in the order the callers write them
cell_mix_items(cell_mix) ==
  SelectSeq(CELL_TYPES, LAMBDA t : t \in DOMAIN cell_mix)

\* A dict keeps its keys in the order of their first insertion: the keys of
\* `new` that `keys` does not hold yet come after those of `keys`.
insert_keys(keys, new) ==
  keys \o SelectSeq(new, LAMBDA k : \A i \in 1..Len(keys) : keys[i] # k)

\* lines 386-388: the keys one cell type writes, in the order of its BOM
bom_keys(cell_type) ==
  [i \in 1..Len(materials_order[cell_type]) |->
     material_key(materials_order[cell_type][i],
                  materials_data[cell_type].materials[materials_order[cell_type][i]].unit)]

\* lines 375-389: the order of the keys of site_materials after the loop
RECURSIVE site_materials_keys(_, _, _, _)
site_materials_keys(keys, items, cell_mix, total_cells) ==
  IF items = <<>> THEN keys
  ELSE site_materials_keys(
         IF skip_cell_type(cell_mix[Head(items)],
                           cells_of_this_type(total_cells, cell_mix[Head(items)]))
           THEN keys
           ELSE insert_keys(keys, bom_keys(Head(items))),
         Tail(items), cell_mix, total_cells)

\* line 412
total_co2_of_material_only(energy_co2, total_material_co2) == total_material_co2

total_co2_of(energy_co2, total_material_co2) == WAdd(energy_co2, total_material_co2)

\* line 371: site_materials = {}, a dict of the call's own
site_materials_kept_between_calls ==
  IF pc = "returned" /\ ret.raised = "none" THEN ret.materials ELSE EmptyDict

site_materials_initial == EmptyDict

calculate_site_metrics(lines, power_pct, cell_mix, silicon_pcts, material_sourcing, country, energy_mix_name) ==
  LET energy_gwh == lines * max_gwh_per_line(country) * power_pct
      total_cells == lines * max_cells_per_line(country) * power_pct
      acc == cell_loop([raised |-> "none",
                        site_materials |-> site_materials_initial,
                        total_material_co2 |-> WZero,
                        total_material_water |-> WZero],
                       cell_mix_items(cell_mix), cell_mix, energy_gwh,
                       total_cells, silicon_pcts, material_sourcing)
  IN
  IF acc.raised # "none" THEN KeyError
  ELSE IF energy_gwh > 0 /\ energy_mix_name \notin ENERGY_MIX_NAMES THEN KeyError
  ELSE LET energy_co2 == IF energy_gwh > 0
                           THEN ENERGY_MIXES(energy_mix_name, energy_gwh)
                           ELSE WZero
       IN  [raised |-> "none",
            energy_gwh |-> energy_gwh,
            total_cells |-> total_cells,
            total_co2 |-> total_co2_of(energy_co2, acc.total_material_co2),
            energy_co2 |-> energy_co2,
            material_co2 |-> acc.total_material_co2,
            total_water |-> acc.total_material_water,
            materials |-> acc.site_materials]

-----------------------------------------------------------------------------
(* The script: material sourcing section (lines 4-93), year loop (lines    *)
(* 462-592), results (lines 597-817)                                        *)

FIRST_YEAR == 2027

NumYears == 2

\* YEARS = list(range(2027, 2036)), cut to NumYears years
YEARS == FIRST_YEAR..(FIRST_YEAR + NumYears - 1)

UK_PRICE_PER_KWH == 258

INDIA_PRICE_INR_PER_KWH == 738

INR_PER_GBP == 105

\* calculate_costs (lines 424-428), in 1/105 GBP: energy (1e-2 GWh) is 1e4
\* kWh, at 0.258 GBP, or at 7.38 INR * (1 / 105) GBP
calculate_costs_no_exchange(uk_energy_gwh, india_energy_gwh) ==
  LET uk_cost == WMul(uk_energy_gwh, 10 * UK_PRICE_PER_KWH * INR_PER_GBP)
      india_cost == WMul(india_energy_gwh,
                         100 * INDIA_PRICE_INR_PER_KWH * INR_PER_GBP)
  IN  WAdd(uk_cost, india_cost)

calculate_costs(uk_energy_gwh, india_energy_gwh) ==
  LET uk_cost == WMul(uk_energy_gwh, 10 * UK_PRICE_PER_KWH * INR_PER_GBP)
      india_cost == WMul(india_energy_gwh, 100 * INDIA_PRICE_INR_PER_KWH)
  IN  WAdd(uk_cost, india_cost)

\* render_for_cell (lines 21-59): the weights one cell type gets from the
\* widgets of the expander
render_for_cell_weight_one(widgets) ==
  [material_category \in DOMAIN MATERIAL_SOURCES |->
     IF widgets.sourcing_mode = "Unique source per category"
       THEN [src \in DOMAIN MATERIAL_SOURCES[material_category] |->
               IF src = widgets.selected[material_category] THEN 1 ELSE 0]
       ELSE [source_name \in DOMAIN MATERIAL_SOURCES[material_category] |->
               Get(widgets.pct[material_category], source_name, 0)]]

render_for_cell(widgets) ==
  [material_category \in DOMAIN MATERIAL_SOURCES |->
     IF widgets.sourcing_mode = "Unique source per category"
       THEN [src \in DOMAIN MATERIAL_SOURCES[material_category] |->
               IF src = widgets.selected[material_category] THEN 100 ELSE 0]
       ELSE [source_name \in DOMAIN MATERIAL_SOURCES[material_category] |->
               Get(widgets.pct[material_category], source_name, 0)]]

\* render_material_sourcing (lines 7-66)
render_material_sourcing(mix_nmc1, mix_nmc2, widgets) ==
  IF mix_nmc1 > 0 \/ mix_nmc2 > 0
    THEN [cell_key \in {c \in {"NMC Cell 1"} : mix_nmc1 > 0} \cup
                       {c \in {"NMC Cell 2"} : mix_nmc2 > 0} |->
            render_for_cell(widgets)]
    ELSE EmptyDict

\* lines 72-81 and 84-93
sourcing_section(lines, mix_nmc1, mix_nmc2, widgets) ==
  IF lines > 0 /\ (mix_nmc1 > 0 \/ mix_nmc2 > 0)
    THEN render_material_sourcing(mix_nmc1, mix_nmc2, widgets)
    ELSE EmptyDict

\* lines 492-496 and 514-518: the silicon selectboxes
silicon_selection(mix_nmc1, mix_nmc2, si1, si2) ==
  (IF mix_nmc1 > 0 THEN ("NMC Cell 1" :> si1) ELSE EmptyDict) @@
  (IF mix_nmc2 > 0 THEN ("NMC Cell 2" :> si2) ELSE EmptyDict)

\* lines 524-525
zero_results ==
  [raised |-> "none", energy_gwh |-> 0, total_cells |-> 0, total_co2 |-> WZero,
   energy_co2 |-> WZero, material_co2 |-> WZero, total_water |-> WZero,
   materials |-> EmptyDict]

\* lines 527 and 531: the site is computed only if it has lines and its mix
\* sums to 100
site_active_always(lines, total_mix) == TRUE

site_active_any_mix(lines, total_mix) == lines > 0

site_active(lines, total_mix) == lines > 0 /\ total_mix = 100

\* lines 523-533 for one site
site_results(site, material_sourcing, country, energy_mix) ==
  LET total_mix == site.mix_nmc1 + site.mix_nmc2 + site.mix_lfp
      silicon == silicon_selection(site.mix_nmc1, site.mix_nmc2, site.si1, site.si2)
      mix == ("NMC Cell 1" :> site.mix_nmc1) @@ ("NMC Cell 2" :> site.mix_nmc2) @@
             ("LFP" :> site.mix_lfp)
  IN  IF site_active(site.lines, total_mix)
        THEN calculate_site_metrics(site.lines, site.power, mix, silicon,
                                    material_sourcing, country, energy_mix)
        ELSE zero_results

\* lines 545-551: year_materials from the two sites' materials
combine_materials_overwrite(first, second) ==
  [material \in DOMAIN first \cup DOMAIN second |->
     IF material \in DOMAIN second THEN second[material] ELSE first[material]]

combine_materials(first, second) ==
  [material \in DOMAIN first \cup DOMAIN second |->
     IF material \in DOMAIN first /\ material \in DOMAIN second
       THEN WAdd(first[material], second[material])
       ELSE IF material \in DOMAIN first THEN first[material]
       ELSE second[material]]

\* lines 523-533 for one site: the order of the keys of its materials
site_keys(site, country) ==
  LET total_mix == site.mix_nmc1 + site.mix_nmc2 + site.mix_lfp
      mix == ("NMC Cell 1" :> site.mix_nmc1) @@ ("NMC Cell 2" :> site.mix_nmc2) @@
             ("LFP" :> site.mix_lfp)
  IN  IF site_active(site.lines, total_mix)
        THEN site_materials_keys(<<>>, cell_mix_items(mix), mix,
               site.lines * max_cells_per_line(country) * site.power)
        ELSE <<>>

\* lines 545-551: the order of the keys of year_materials
year_materials_keys(first, second) == insert_keys(first, second)

\* lines 577-578: one row (k, v) per item of year_materials, in its order,
\* under the default row index 0, 1, ...
mat_df(year, keys, materials) ==
  [year |-> year, materials |-> materials, rows |-> keys]

\* what fillna(0) leaves in a Material cell that concat had nothing for
NaNFilled == <<"0", "">>

RECURSIVE MaxRows(_)
MaxRows(list) ==
  IF list = <<>> THEN 0
  ELSE LET rest == MaxRows(Tail(list))
       IN  IF Len(Head(list).rows) > rest THEN Len(Head(list).rows) ELSE rest

\* lines 766-771: pd.concat(axis=1) puts side by side the rows that have the
\* same row index, whatever their Material; a frame shorter than the longest
\* one is filled with 0; Total adds the numeric columns, the Qty ones.
concat_fillna(list) ==
  [i \in 1..MaxRows(list) |->
     [n \in 1..Len(list) |->
        IF i <= Len(list[n].rows)
          THEN [Material |-> list[n].rows[i],
                Qty |-> list[n].materials[list[n].rows[i]]]
          ELSE [Material |-> NaNFilled, Qty |-> WZero]]]

with_total(table) ==
  [i \in 1..Len(table) |->
     [cells |-> table[i],
      Total |-> WSumSeq([n \in 1..Len(table[i]) |-> table[i][n].Qty])]]

WLess(a, b) == a[1] < b[1] \/ (a[1] = b[1] /\ a[2] < b[2])

\* line 772: nlargest(10, 'Total') keeps the rows that fewer than ten rows
\* come before, a row coming before another when its Total is larger or,
\* the Totals being equal, when it stands above it
TOP_N == 10

nlargest(table) ==
  {i \in 1..Len(table) :
     Cardinality({j \in 1..Len(table) :
                    \/ WLess(table[i].Total, table[j].Total)
                    \/ (table[j].Total = table[i].Total /\ j < i)}) < TOP_N}

\* lines 553-558
update_cumulative_overwrite(cumulative, materials) ==
  [material \in DOMAIN cumulative \cup DOMAIN materials |->
     IF material \in DOMAIN materials THEN materials[material]
     ELSE cumulative[material]]

update_cumulative(cumulative, materials) ==
  [material \in DOMAIN cumulative \cup DOMAIN materials |->
     IF material \in DOMAIN materials
       THEN WAdd(Get(cumulative, material, WZero), materials[material])
       ELSE cumulative[material]]

\* lines 561-574
year_record(year, uk, india) ==
  ("Year" :> year) @@
  ("Total Cells" :> uk.total_cells + india.total_cells) @@
  ("Total Energy (GWh)" :> uk.energy_gwh + india.energy_gwh) @@
  ("Total CO2 (tCO2)" :> WAdd(uk.total_co2, india.total_co2)) @@
  ("Energy CO2 (tCO2)" :> WAdd(uk.energy_co2, india.energy_co2)) @@
  ("Material CO2 (tCO2)" :> WAdd(uk.material_co2, india.material_co2)) @@
  ("Total Water (m3)" :> WAdd(uk.total_water, india.total_water)) @@
  ("Total Cost" :> calculate_costs(uk.energy_gwh, india.energy_gwh)) @@
  ("UK Energy (GWh)" :> uk.energy_gwh) @@
  ("UK Cells" :> uk.total_cells) @@
  ("India Energy (GWh)" :> india.energy_gwh) @@
  ("India Cells" :> india.total_cells)

Column(data, name) == [n \in 1..Len(data) |-> data[n][name]]

\* Series.cumsum() (line 655)
cumsum(s) == [n \in 1..Len(s) |-> WSumSeq(SubSeq(s, 1, n))]

\* lines 805-817
cumulative_totals(data) ==
  ("Total Cells" :> SumSeq(Column(data, "Total Cells"))) @@
  ("Total Energy (GWh)" :> SumSeq(Column(data, "Total Energy (GWh)"))) @@
  ("Total CO2 (tCO2)" :> WSumSeq(Column(data, "Total CO2 (tCO2)"))) @@
  ("Energy CO2 (tCO2)" :> WSumSeq(Column(data, "Energy CO2 (tCO2)"))) @@
  ("Material CO2 (tCO2)" :> WSumSeq(Column(data, "Material CO2 (tCO2)"))) @@
  ("Total Water (m3)" :> WSumSeq(Column(data, "Total Water (m3)"))) @@
  ("Total Cost" :> WSumSeq(Column(data, "Total Cost")))

-----------------------------------------------------------------------------
(* Inputs of the function-level specifications                              *)

MaxLines == 2

PowerChoices == {0, 33, 100, 210}

N_CARBONYL ==
  "Nickel sulfate hexahydrate produced via carbonyl in Canada from nickel sulfate ore from Canada"

N_PYRO_CHINA ==
  "Nickel sulfate produced via pyrometallurgy in China from nickel sulfide ore from China"

G_SICHUAN ==
  "Anode-grade synthetic graphite in Sichuan, China from petroleum coke (powder)"

UNLISTED_SOURCE == "Unlisted source"

UNLISTED_CATEGORY == "Unlisted category"

WeightChoices == {-10, 0, 40, 50, 60, 99, 100, 101, 110}

\* weights of one category, as a caller may pass them
NickelWeights ==
  [{N_CARBONYL, N_PYRO_CHINA} -> WeightChoices] \cup
  [{N_CARBONYL, UNLISTED_SOURCE} -> WeightChoices]

GraphiteWeights == [{G_SICHUAN} -> {90, 100}]

SourcingMixes ==
  {("pCam Nickel" :> n) : n \in NickelWeights} \cup
  {("pCam Nickel" :> n) @@ ("Synthetic Graphite" :> g) :
     n \in NickelWeights, g \in GraphiteWeights} \cup
  {("pCam Nickel" :> n) @@ (UNLISTED_CATEGORY :> (UNLISTED_SOURCE :> 100)) :
     n \in NickelWeights}

MixChoices ==
  { ("NMC Cell 1" :> m[1]) @@ ("NMC Cell 2" :> m[2]) @@ ("LFP" :> m[3]) :
      m \in {<<100, 0, 0>>, <<0, 100, 0>>, <<0, 0, 100>>, <<50, 30, 20>>,
             <<60, 30, 5>>, <<0, 0, 0>>} }

SiliconChoices ==
  { EmptyDict,
    ("NMC Cell 1" :> 3),
    ("NMC Cell 2" :> 10),
    ("NMC Cell 1" :> 20) @@ ("NMC Cell 2" :> 5),
    ("NMC Cell 1" :> 3) @@ ("NMC Cell 2" :> 7),
    ("NMC Cell 1" :> 10) @@ ("LFP" :> 20) }

CellSourcingChoices ==
  { ("pCam Nickel" :> (N_PYRO_CHINA :> 100)),
    ("pCam Nickel" :> ((N_CARBONYL :> 40) @@ (N_PYRO_CHINA :> 60))) @@
      ("Synthetic Graphite" :> (G_SICHUAN :> 90)),
    ("pCam Nickel" :> (N_CARBONYL :> 99)) @@
      ("Synthetic Graphite" :> (G_SICHUAN :> 100)),
    ("pCam Nickel" :> ((N_CARBONYL :> 50) @@ (N_PYRO_CHINA :> 51))),
    ("pCam Nickel" :> ((N_CARBONYL :> 110) @@ (N_PYRO_CHINA :> -10))),
    ("pCam Nickel" :> ((N_CARBONYL :> 100) @@ (UNLISTED_SOURCE :> 50))),
    (UNLISTED_CATEGORY :> (UNLISTED_SOURCE :> 100)) }

SiteSourcingChoices ==
  {EmptyDict} \cup
  {("NMC Cell 1" :> m) : m \in CellSourcingChoices} \cup
  {("NMC Cell 1" :> ("pCam Nickel" :> (N_CARBONYL :> 100))) @@
     ("NMC Cell 2" :> ("pCam Nickel" :> (N_PYRO_CHINA :> 100))),
   ("LFP" :> ("pCam Nickel" :> (N_PYRO_CHINA :> 100)))}

SiteArgs ==
  [lines : 0..MaxLines, power_pct : PowerChoices, cell_mix : MixChoices,
   silicon_pcts : SiliconChoices, material_sourcing : SiteSourcingChoices,
   country : {"UK", "India"}, energy_mix_name : ENERGY_MIX_NAMES]

Idle ==
  /\ first_ret = "none"
  /\ uk_material_sourcing = EmptyDict
  /\ india_material_sourcing = EmptyDict
  /\ todo = {}
  /\ form = EmptyDict
  /\ uk_results = EmptyDict
  /\ india_results = EmptyDict
  /\ year_materials = EmptyDict
  /\ cumulative_materials = EmptyDict
  /\ year_data = <<>>
  /\ annual_materials_list = <<>>
  /\ cumulative_df = EmptyDict
  /\ cumulative_co2 = <<>>
  /\ materials_combined = <<>>

-----------------------------------------------------------------------------
(* SpecSourcing: one call of calculate_material_sourcing_impact             *)

InitSourcing ==
  /\ pc = "call"
  /\ args \in SourcingMixes
  /\ ret = "pending"
  /\ Idle

CallSourcing ==
  /\ pc = "call"
  /\ ret' = calculate_material_sourcing_impact(args)
  /\ pc' = "returned"
  /\ UNCHANGED <<args, loop_vars>>

NextSourcing == CallSourcing

SpecSourcing == InitSourcing /\ [][NextSourcing]_vars

-----------------------------------------------------------------------------
(* SpecSite: one call of calculate_site_metrics                             *)

InitSite ==
  /\ pc = "call"
  /\ args \in SiteArgs
  /\ ret = "pending"
  /\ Idle

CallSite ==
  /\ pc = "call"
  /\ ret' = calculate_site_metrics(args.lines, args.power_pct, args.cell_mix,
                                   args.silicon_pcts, args.material_sourcing,
                                   args.country, args.energy_mix_name)
  /\ pc' = "returned"
  /\ UNCHANGED <<args, loop_vars>>

NextSite == CallSite

SpecSite == InitSite /\ [][NextSite]_vars

-----------------------------------------------------------------------------
(* SpecSiteTwice: calculate_site_metrics called twice with the same         *)
(* argument objects.  The function binds its results to local names only   *)
(* and assigns to no item of its arguments or of the module's tables, so   *)
(* the second call finds them as the first did.                            *)

CallSiteAgain ==
  /\ pc = "returned"
  /\ first_ret' = ret
  /\ ret' = calculate_site_metrics(args.lines, args.power_pct, args.cell_mix,
                                   args.silicon_pcts, args.material_sourcing,
                                   args.country, args.energy_mix_name)
  /\ pc' = "returned again"
  /\ UNCHANGED <<args, uk_material_sourcing, india_material_sourcing, todo, form,
                 uk_results, india_results, year_materials,
                 cumulative_materials, year_data, annual_materials_list,
                 cumulative_df, cumulative_co2,
                 materials_combined>>

NextSiteTwice == CallSite \/ CallSiteAgain

SpecSiteTwice == InitSite /\ [][NextSiteTwice]_vars

-----------------------------------------------------------------------------
(* Widget values the script is run with                                     *)

\* the sourcing expander as it first renders: one source per category, the
\* first option of each selectbox
FirstSource ==
  ("pCam Nickel" :> N_CARBONYL) @@
  ("Synthetic Graphite" :> G_SICHUAN) @@
  ("pCam Manganese" :> "Manganese sulfate monohydrate from global average (EF3.0)") @@
  ("CAM Lithium" :>
     "Lithium hydroxide monohydrate produced via evaporation and processing brine of salar brine in Chile") @@
  ("pCam Cobalt" :> "Cobalt sulfate heptahydrate from global average")

NoPercent == [c \in DOMAIN MATERIAL_SOURCES |-> EmptyDict]

WidgetsUnique ==
  [sourcing_mode |-> "Unique source per category", selected |-> FirstSource,
   pct |-> NoPercent]

\* percent mode: nickel split 40:60, graphite left at 90, the rest at 0
WidgetsPercent ==
  [sourcing_mode |-> "Percent mix across sources", selected |-> FirstSource,
   pct |-> ("pCam Nickel" :> ((N_CARBONYL :> 40) @@ (N_PYRO_CHINA :> 60))) @@
           ("Synthetic Graphite" :> (G_SICHUAN :> 90)) @@ NoPercent]

SiteForm(lines, power, mix_nmc1, mix_nmc2, mix_lfp, si1, si2, widgets) ==
  [lines |-> lines, power |-> power, mix_nmc1 |-> mix_nmc1,
   mix_nmc2 |-> mix_nmc2, mix_lfp |-> mix_lfp, si1 |-> si1, si2 |-> si2,
   sourcing_widgets |-> widgets]

\* UK: lines 0..10, power 0..100, mix 0..100 each, silicon in SILICON_PCTS
UKForms ==
  { SiteForm(0, 0, 0, 0, 0, 3, 3, WidgetsUnique),
    SiteForm(1, 50, 60, 30, 5, 3, 5, WidgetsUnique),
    SiteForm(1, 100, 100, 0, 0, 10, 3, WidgetsPercent),
    SiteForm(2, 100, 0, 0, 100, 3, 3, WidgetsUnique) }

\* India: the same, power 0..210
IndiaForms ==
  { SiteForm(0, 0, 0, 0, 0, 3, 3, WidgetsUnique),
    SiteForm(2, 210, 50, 30, 20, 5, 20, WidgetsUnique),
    SiteForm(1, 100, 50, 30, 21, 3, 3, WidgetsPercent) }

LoopEnergyMixes == {"100% Grid", "PPA:Grid (70:30)"}

\* Lines 72-93 read uk_lines, uk_mix_nmc1, uk_mix_nmc2, india_lines,
\* india_mix_nmc1 and india_mix_nmc2 before the year loop assigns them: the
\* values they hold there are not the script's to decide.
StaleNames ==
  { [uk |-> SiteForm(0, 0, 0, 0, 0, 3, 3, WidgetsUnique),
     india |-> SiteForm(0, 0, 0, 0, 0, 3, 3, WidgetsUnique)],
    [uk |-> SiteForm(1, 100, 100, 0, 0, 10, 3, WidgetsPercent),
     india |-> SiteForm(2, 210, 50, 30, 20, 5, 20, WidgetsUnique)],
    [uk |-> SiteForm(1, 100, 100, 0, 0, 10, 3, WidgetsUnique),
     india |-> SiteForm(0, 0, 0, 0, 0, 3, 3, WidgetsUnique)] }

-----------------------------------------------------------------------------
(* Spec: one run of the script                                              *)

Init ==
  /\ pc = "sourcing"
  /\ args = "none"
  /\ ret = "none"
  /\ first_ret = "none"
  /\ uk_material_sourcing = EmptyDict
  /\ india_material_sourcing = EmptyDict
  /\ todo = YEARS
  /\ form = EmptyDict
  /\ uk_results = EmptyDict
  /\ india_results = EmptyDict
  /\ year_materials = EmptyDict
  /\ cumulative_materials = EmptyDict
  /\ year_data = <<>>
  /\ annual_materials_list = <<>>
  /\ cumulative_df = EmptyDict
  /\ cumulative_co2 = <<>>
  /\ materials_combined = <<>>

\* lines 68-93, once, before the loop
SourcingSection ==
  /\ pc = "sourcing"
  /\ \E stale \in StaleNames :
       /\ uk_material_sourcing' =
            sourcing_section(stale.uk.lines, stale.uk.mix_nmc1,
                             stale.uk.mix_nmc2, stale.uk.sourcing_widgets)
       /\ india_material_sourcing' =
            sourcing_section(stale.india.lines, stale.india.mix_nmc1,
                             stale.india.mix_nmc2, stale.india.sourcing_widgets)
  /\ pc' = "loop"
  /\ UNCHANGED <<args, ret, first_ret, todo, form, uk_results, india_results,
                 year_materials, cumulative_materials, year_data,
                 annual_materials_list, cumulative_df, cumulative_co2,
                 materials_combined>>

\* lines 469-592: one iteration of the loop over YEARS.  The order of YEARS
\* is left open: any year not yet processed may come next.
YearIteration ==
  /\ pc = "loop"
  /\ \E year \in todo, uk \in UKForms, india \in IndiaForms,
        energy_mix \in LoopEnergyMixes :
       /\ form' = [year |-> year, uk |-> uk, india |-> india,
                   energy_mix |-> energy_mix]
       /\ uk_results' = site_results(uk, uk_material_sourcing, "UK", energy_mix)
       /\ india_results' = site_results(india, india_material_sourcing, "India",
                                        energy_mix)
       /\ year_materials' = combine_materials(uk_results'.materials,
                                              india_results'.materials)
       /\ cumulative_materials' = update_cumulative(cumulative_materials,
                                                    year_materials')
       /\ year_data' = Append(year_data,
                              year_record(year, uk_results', india_results'))
       /\ annual_materials_list' =
            IF year_materials' # EmptyDict
              THEN Append(annual_materials_list,
                          mat_df(year,
                                 year_materials_keys(site_keys(uk, "UK"),
                                                     site_keys(india, "India")),
                                 year_materials'))
              ELSE annual_materials_list
       /\ todo' = todo \ {year}
       /\ pc' = IF todo \ {year} = {} THEN "results" ELSE "loop"
  /\ UNCHANGED <<args, ret, first_ret, uk_material_sourcing,
                 india_material_sourcing, cumulative_df, cumulative_co2,
                 materials_combined>>

\* lines 597-817.  pd.concat (line 766) raises ValueError on an empty list,
\* and the script stops before the cumulative totals of line 805.
Results ==
  /\ pc = "results"
  /\ year_data # <<>>
  /\ cumulative_co2' = cumsum(Column(year_data, "Total CO2 (tCO2)"))
  /\ IF annual_materials_list = <<>>
       THEN /\ pc' = "ValueError"
            /\ UNCHANGED <<cumulative_df, materials_combined>>
       ELSE /\ pc' = "done"
            /\ materials_combined' =
                 with_total(concat_fillna(annual_materials_list))
            /\ cumulative_df' = cumulative_totals(year_data)
  /\ UNCHANGED <<args, ret, first_ret, uk_material_sourcing,
                 india_material_sourcing, todo,
                 form, uk_results, india_results, year_materials,
                 cumulative_materials, year_data, annual_materials_list>>

Next == SourcingSection \/ YearIteration \/ Results

Spec == Init /\ [][Next]_vars

-----------------------------------------------------------------------------
(* SpecRender: one call of render_material_sourcing, then                   *)
(* calculate_material_sourcing_impact on what it returned for each cell     *)
(* type, as lines 402-403 do                                                *)

\* what the five selectboxes of the unique mode may hold: any one option each
SelectedChoices ==
  { ("pCam Nickel" :> n) @@ ("Synthetic Graphite" :> g) @@
    ("pCam Manganese" :> m) @@ ("CAM Lithium" :> l) @@ ("pCam Cobalt" :> c) :
      n \in {N_CARBONYL, N_PYRO_CHINA,
             "Nickel sulfate hexahydrate from global average"},
      g \in {G_SICHUAN, "Synthetic Graphite - Freyr Custom Route"},
      m \in {"Manganese sulfate monohydrate from global average (EF3.0)",
             "HPMSM produced via EMM Dissolution in China with manganese ore from China"},
      l \in {"Lithium hydroxide monohydrate from global average",
             "Lithium hydroxide - Freyr Custom Route"},
      c \in {"Cobalt sulfate heptahydrate from global average",
             "Cobalt sulfate heptahydrate produced in Indonesia via HPAL from MHP with laterite ore from Indonesia"} }

RenderWidgets ==
  {[sourcing_mode |-> "Unique source per category", selected |-> s,
    pct |-> NoPercent] : s \in SelectedChoices} \cup {WidgetsPercent}

RenderArgs ==
  [mix_nmc1 : {0, 50, 100}, mix_nmc2 : {0, 30, 100}, widgets : RenderWidgets]

InitRender ==
  /\ pc = "call"
  /\ args \in RenderArgs
  /\ ret = "pending"
  /\ Idle

CallRender ==
  /\ pc = "call"
  /\ ret' = render_material_sourcing(args.mix_nmc1, args.mix_nmc2, args.widgets)
  /\ pc' = "rendered"
  /\ UNCHANGED <<args, loop_vars>>

\* first_ret keeps the rendered dict, ret the pair computed for each cell type
CallImpact ==
  /\ pc = "rendered"
  /\ first_ret' = ret
  /\ ret' = [cell_type \in DOMAIN ret |->
               calculate_material_sourcing_impact(ret[cell_type])]
  /\ pc' = "returned"
  /\ UNCHANGED <<args, uk_material_sourcing, india_material_sourcing, todo, form,
                 uk_results, india_results, year_materials,
                 cumulative_materials, year_data, annual_materials_list,
                 cumulative_df, cumulative_co2,
                 materials_combined>>

NextRender == CallRender \/ CallImpact

SpecRender == InitRender /\ [][NextRender]_vars

-----------------------------------------------------------------------------
(* Vocabulary of the claims                                                 *)

\* the weights given for a category, all of them, summed
GivenSum(sources) == SumSet(sources, DOMAIN sources)

Listed(material_category) == material_category \in DOMAIN MATERIAL_SOURCES

WeightsInRange(sources) == \A s \in DOMAIN sources : sources[s] \in 0..100

\* sum over the listed sources of weight_i / 100 * delta_i, in 1e-4 per kWh
WeightedAverage(material_category, sources, field) ==
  LET known == DOMAIN sources \cap DOMAIN MATERIAL_SOURCES[material_category]
  IN  SumSet([s \in known |->
                sources[s] * MATERIAL_SOURCES[material_category][s][field]],
             known)

\* what the categories summing to exactly 100 add, by the specification
SourcingDelta(material_sourcing_mix, field) ==
  LET full == {c \in DOMAIN material_sourcing_mix :
                 Listed(c) /\ GivenSum(material_sourcing_mix[c]) = 100}
  IN  SumSet([c \in full |-> WeightedAverage(c, material_sourcing_mix[c], field)],
             full)

SiliconBearing == {"NMC Cell 1", "NMC Cell 2"}

Returned == pc = "returned"

Producing(a) == a.lines > 0 /\ a.power_pct > 0

ActiveTypes(a) == {t \in DOMAIN a.cell_mix : a.cell_mix[t] > 0 /\ Producing(a)}

\* an active silicon-bearing cell type without a recorded silicon selection
MissingSilicon(a) ==
  \E t \in ActiveTypes(a) \cap SiliconBearing : t \notin DOMAIN a.silicon_pcts

\* per-kWh impact of a cell type by section 4.2 c-e, in 1e-4 per kWh
PerKwh(a, t, field) ==
  materials_data[t].base_co2_water_per_kwh[field] * 100 +
  (IF t \in SiliconBearing
     THEN materials_data[t].silicon_co2_water_per_kwh[a.silicon_pcts[t]][field] * 100 +
          (IF t \in DOMAIN a.material_sourcing
             THEN SourcingDelta(a.material_sourcing[t], field)
             ELSE 0)
     ELSE 0)

\* section 4.2 f-g summed over the active cell types, in 1e-5
MaterialImpact(a, field) ==
  LET energy_gwh == a.lines * max_gwh_per_line(a.country) * a.power_pct
      act == ActiveTypes(a)
  IN  WSumSet([t \in act |-> WMul(energy_gwh * a.cell_mix[t], PerKwh(a, t, field))],
              act)

AllCategories(a, P(_, _)) ==
  \A t \in DOMAIN a.material_sourcing :
    \A c \in DOMAIN a.material_sourcing[t] :
      Listed(c) => P(c, a.material_sourcing[t][c])

ZeroRecord(r) ==
  /\ r.energy_gwh = 0
  /\ r.total_cells = 0
  /\ WIsZero(r.total_co2)
  /\ WIsZero(r.energy_co2)
  /\ WIsZero(r.material_co2)
  /\ WIsZero(r.total_water)
  /\ \A k \in DOMAIN r.materials : WIsZero(r.materials[k])

-----------------------------------------------------------------------------
(* Claims on the function-level specifications                              *)

\* C2 (SpecSourcing): a category whose given weights do not sum to exactly
\* 100 contributes nothing, for every weight mapping: the returned pair is
\* the pair returned for the mapping without those categories.
C2_OnlyFullCategoriesCount ==
  Returned =>
    ret = calculate_material_sourcing_impact(
            [c \in {d \in DOMAIN args : GivenSum(args[d]) = 100} |-> args[c]])

C4_MissingSiliconContributesNothing ==
  (Returned /\ MissingSilicon(args)) =>
    (ret.raised # "none" \/ ZeroRecord(ret))

\* C6 (SpecSite): energy_gwh = lines * max_gwh_per_line * power_pct / 100 and
\* total_cells = lines * max_cells_per_line * power_pct / 100, with 50 GWh
\* per line for UK, 70 for any other country and 300 cells per line, whatever
\* the cell mix, silicon and sourcing arguments are (both in hundredths).
C6_EnergyAndCells ==
  (Returned /\ ret.raised = "none") =>
    /\ ret.energy_gwh =
         args.lines * (IF args.country = "UK" THEN 50 ELSE 70) * args.power_pct
    /\ ret.total_cells = args.lines * 300 * args.power_pct

C6_Witness ==
  /\ Returned
  /\ ret.raised = "none"
  /\ args.country = "India"
  /\ args.lines = 2
  /\ args.power_pct = 33
  /\ args.cell_mix["NMC Cell 1"] = 50
  /\ args.material_sourcing # EmptyDict
  /\ ret.energy_gwh = 4620
  /\ ret.total_cells = 19800

\* the arguments a call may be given without any negative number
InputsNonNegative(a) ==
  /\ a.lines >= 0
  /\ a.power_pct >= 0
  /\ \A t \in DOMAIN a.cell_mix : a.cell_mix[t] >= 0
  /\ \A t \in DOMAIN a.material_sourcing :
       \A c \in DOMAIN a.material_sourcing[t] :
         WeightsInRange(a.material_sourcing[t][c])

\* C10 (SpecSite): with lines >= 0, power_pct >= 0, mix percentages >= 0 and
\* sourcing weights in 0..100, every derived quantity of the returned record
\* is non-negative.
C10_NonNegativeOutputs ==
  (Returned /\ ret.raised = "none" /\ InputsNonNegative(args)) =>
    /\ ret.energy_gwh >= 0
    /\ ret.total_cells >= 0
    /\ WNonNeg(ret.energy_co2)
    /\ WNonNeg(ret.material_co2)
    /\ WNonNeg(ret.total_co2)
    /\ WNonNeg(ret.total_water)
    /\ \A k \in DOMAIN ret.materials : WNonNeg(ret.materials[k])

\* a producing NMC cell type sourced wholly from the nickel route whose water
\* delta is negative
C10_Witness ==
  /\ Returned
  /\ ret.raised = "none"
  /\ InputsNonNegative(args)
  /\ \E t \in ActiveTypes(args) \cap SiliconBearing \cap DOMAIN args.material_sourcing :
       /\ "pCam Nickel" \in DOMAIN args.material_sourcing[t]
       /\ N_PYRO_CHINA \in DOMAIN args.material_sourcing[t]["pCam Nickel"]
       /\ args.material_sourcing[t]["pCam Nickel"][N_PYRO_CHINA] = 100
       /\ MATERIAL_SOURCES["pCam Nickel"][N_PYRO_CHINA].water < 0
  /\ WNonNeg(ret.total_water)
  /\ ~WIsZero(ret.total_water)

-----------------------------------------------------------------------------
(* Claims on the run of the script (Spec)                                   *)

Iterated == year_data # <<>>

Last == year_data[Len(year_data)]

TotalMix(site) == site.mix_nmc1 + site.mix_nmc2 + site.mix_lfp

\* an active site whose mix does not sum to exactly 100
InvalidMix(site) == site.lines > 0 /\ TotalMix(site) # 100

\* the year's record and material map hold what the other site alone gives
OnlySiteCounts(other, own_energy, own_cells, other_energy, other_cells, cost) ==
  /\ Last[own_energy] = 0
  /\ Last[own_cells] = 0
  /\ Last[other_energy] = other.energy_gwh
  /\ Last[other_cells] = other.total_cells
  /\ Last["Total Energy (GWh)"] = other.energy_gwh
  /\ Last["Total Cells"] = other.total_cells
  /\ Last["Total CO2 (tCO2)"] = other.total_co2
  /\ Last["Energy CO2 (tCO2)"] = other.energy_co2
  /\ Last["Material CO2 (tCO2)"] = other.material_co2
  /\ Last["Total Water (m3)"] = other.total_water
  /\ Last["Total Cost"] = cost
  /\ year_materials = other.materials

\* C1: an active site (lines > 0) whose mix does not sum to exactly 100 adds
\* nothing to any output of the year (energy, cells, the three CO2 figures,
\* water, cost, every material quantity), and the iteration completes.
C1_InvalidMixContributesNothing ==
  Iterated =>
    /\ InvalidMix(form.uk) =>
         /\ ZeroRecord(uk_results)
         /\ uk_results.materials = EmptyDict
         /\ OnlySiteCounts(india_results, "UK Energy (GWh)", "UK Cells",
                           "India Energy (GWh)", "India Cells",
                           WMul(india_results.energy_gwh, 73800))
    /\ InvalidMix(form.india) =>
         /\ ZeroRecord(india_results)
         /\ india_results.materials = EmptyDict
         /\ OnlySiteCounts(uk_results, "India Energy (GWh)", "India Cells",
                           "UK Energy (GWh)", "UK Cells",
                           WMul(uk_results.energy_gwh, 270900))

C1_Witness ==
  /\ Iterated
  /\ form.uk.lines = 1
  /\ form.uk.power = 50
  /\ <<form.uk.mix_nmc1, form.uk.mix_nmc2, form.uk.mix_lfp>> = <<60, 30, 5>>
  /\ ZeroRecord(uk_results)
  /\ india_results.total_cells > 0
  /\ Last["Total Cells"] = india_results.total_cells
  /\ ~WIsZero(Last["Total Cost"])

\* what the year's own widgets give for a site
OwnYearResult(site, country) ==
  site_results(site,
               sourcing_section(site.lines, site.mix_nmc1, site.mix_nmc2,
                                site.sourcing_widgets),
               country, form.energy_mix)

\* C5: the result recorded for a site in year Y is the one computed from that
\* site's own configuration for year Y, the material sourcing configured for
\* that site and year included.
C5_ResultOfOwnYearConfiguration ==
  Iterated =>
    /\ uk_results = OwnYearResult(form.uk, "UK")
    /\ india_results = OwnYearResult(form.india, "India")

\* the years recorded so far and sums over them
ProcessedYears == {year_data[n]["Year"] : n \in 1..Len(year_data)}

RecordOf(y) ==
  year_data[CHOOSE n \in 1..Len(year_data) : year_data[n]["Year"] = y]

WSumOverYears(name) ==
  WSumSet([y \in ProcessedYears |-> RecordOf(y)[name]], ProcessedYears)

SumOverYears(name) ==
  SumSet([y \in ProcessedYears |-> RecordOf(y)[name]], ProcessedYears)

AnnualWith(k) ==
  {n \in 1..Len(annual_materials_list) :
     k \in DOMAIN annual_materials_list[n].materials}

\* C7: the cumulative value of every field and of every material key is the
\* sum of the per-year totals of the years processed, in whatever order the
\* years were processed.
C7_CumulativeIsSumOfYears ==
  /\ DOMAIN cumulative_materials =
       UNION {DOMAIN annual_materials_list[n].materials :
                n \in 1..Len(annual_materials_list)}
  /\ \A k \in DOMAIN cumulative_materials :
       cumulative_materials[k] =
         WSumSet([n \in AnnualWith(k) |-> annual_materials_list[n].materials[k]],
                 AnnualWith(k))
  /\ pc = "done" =>
       /\ cumulative_df["Total Cells"] = SumOverYears("Total Cells")
       /\ cumulative_df["Total Energy (GWh)"] = SumOverYears("Total Energy (GWh)")
       /\ \A name \in {"Total CO2 (tCO2)", "Energy CO2 (tCO2)",
                      "Material CO2 (tCO2)", "Total Water (m3)", "Total Cost"} :
            cumulative_df[name] = WSumOverYears(name)
       /\ \A n \in 1..Len(cumulative_co2) :
            cumulative_co2[n] =
              WSumSet([m \in 1..n |-> year_data[m]["Total CO2 (tCO2)"]], 1..n)

\* two producing years processed latest first, sharing a material key
C7_Witness ==
  /\ pc = "done"
  /\ Len(year_data) >= 2
  /\ year_data[1]["Year"] > year_data[2]["Year"]
  /\ year_data[1]["Total Cells"] > 0
  /\ year_data[2]["Total Cells"] > year_data[1]["Total Cells"]
  /\ Len(annual_materials_list) >= 2
  /\ \E k \in DOMAIN cumulative_materials :
       /\ k \in DOMAIN annual_materials_list[1].materials
       /\ k \in DOMAIN annual_materials_list[2].materials
       /\ cumulative_materials[k] # annual_materials_list[2].materials[k]
  /\ cumulative_df["Total Cells"] =
       year_data[1]["Total Cells"] + year_data[2]["Total Cells"] +
       SumSeq([n \in 1..(Len(year_data) - 2) |-> year_data[n + 2]["Total Cells"]])

\* C8: each numeric total of the year is the UK value plus the India value,
\* and the year's material map holds, for every key of either site, the sum
\* of the two sites' quantities for it, and no other key.
C8_YearIsSumOfSites ==
  Iterated =>
    /\ Last["Total Cells"] = uk_results.total_cells + india_results.total_cells
    /\ Last["Total Energy (GWh)"] = uk_results.energy_gwh + india_results.energy_gwh
    /\ Last["Total CO2 (tCO2)"] = WAdd(uk_results.total_co2, india_results.total_co2)
    /\ Last["Energy CO2 (tCO2)"] = WAdd(uk_results.energy_co2, india_results.energy_co2)
    /\ Last["Material CO2 (tCO2)"] =
         WAdd(uk_results.material_co2, india_results.material_co2)
    /\ Last["Total Water (m3)"] = WAdd(uk_results.total_water, india_results.total_water)
    /\ DOMAIN year_materials =
         DOMAIN uk_results.materials \cup DOMAIN india_results.materials
    /\ \A k \in DOMAIN year_materials :
         year_materials[k] = WAdd(Get(uk_results.materials, k, WZero),
                                  Get(india_results.materials, k, WZero))

\* both sites produce; one key is shared, one is India's alone
C8_Witness ==
  /\ Iterated
  /\ uk_results.total_cells > 0
  /\ india_results.total_cells > 0
  /\ <<"Separator", "m2">> \in
       DOMAIN uk_results.materials \cap DOMAIN india_results.materials
  /\ <<"Li", "kg">> \in
       DOMAIN india_results.materials \ DOMAIN uk_results.materials
  /\ year_materials[<<"Li", "kg">>] = india_results.materials[<<"Li", "kg">>]
  /\ year_materials[<<"Separator", "m2">>] # india_results.materials[<<"Separator", "m2">>]

\* C9: total CO2 = energy CO2 + material CO2 in the record of each site, in
\* every year record and in the cumulative totals.
C9_TotalIsEnergyPlusMaterial ==
  /\ Iterated =>
       /\ uk_results.total_co2 = WAdd(uk_results.energy_co2, uk_results.material_co2)
       /\ india_results.total_co2 =
            WAdd(india_results.energy_co2, india_results.material_co2)
  /\ \A n \in 1..Len(year_data) :
       year_data[n]["Total CO2 (tCO2)"] =
         WAdd(year_data[n]["Energy CO2 (tCO2)"], year_data[n]["Material CO2 (tCO2)"])
  /\ pc = "done" =>
       cumulative_df["Total CO2 (tCO2)"] =
         WAdd(cumulative_df["Energy CO2 (tCO2)"], cumulative_df["Material CO2 (tCO2)"])

C9_Witness ==
  /\ pc = "done"
  /\ uk_results.energy_gwh > 0
  /\ india_results.energy_gwh > 0
  /\ ~WIsZero(uk_results.energy_co2)
  /\ ~WIsZero(uk_results.material_co2)
  /\ uk_results.total_co2 # uk_results.material_co2
  /\ cumulative_df["Total CO2 (tCO2)"] # cumulative_df["Material CO2 (tCO2)"]

-----------------------------------------------------------------------------
(* Capacity, cost, bill of materials and the empty cases                    *)

\* C11: whatever the year's form holds, a site's energy is at most
\* lines * 50 GWh (UK) or lines * 70 GWh (India) and its cell count at most
\* lines * 300, the maxima the sidebar states (hundredths on both sides).
C11_CapacityIsMaximum ==
  Iterated =>
    /\ uk_results.energy_gwh <= form.uk.lines * UK_MAX_GWH_PER_LINE * 100
    /\ uk_results.total_cells <= form.uk.lines * MAX_CELLS_PER_LINE * 100
    /\ india_results.energy_gwh <= form.india.lines * OTHER_MAX_GWH_PER_LINE * 100
    /\ india_results.total_cells <= form.india.lines * MAX_CELLS_PER_LINE * 100

\* the site takes part in the year: it has lines and its mix sums to 100
Included(site) == site.lines > 0 /\ TotalMix(site) = 100

\* energy of a site of the year in kWh: GWh * 1e6, zero for an excluded site
YearKwh(site, country) ==
  IF Included(site)
    THEN site.lines * max_gwh_per_line(country) * site.power * 10000
    ELSE 0

\* C12: the year's cost is uk_energy_gwh * 1e6 * 0.258 GBP plus
\* india_energy_gwh * 1e6 * 7.38 INR converted once at 105 INR per GBP, and a
\* site left out of the year (no lines, or a mix not summing to 100) costs
\* nothing.  Both sides in 1/105 GBP: 0.258 GBP is 27.09, 7.38 INR is 7.38.
C12_CostFormula ==
  Iterated =>
    Last["Total Cost"] =
      WAdd(WMul(YearKwh(form.uk, "UK") \div 100, 2709),
           WMul(YearKwh(form.india, "India") \div 100, 738))

\* the UK site produces 50 GWh and India, with lines but a mix of 101, is
\* left out: 50e6 kWh * 0.258 GBP = 12.9 million GBP
C12_Witness ==
  /\ Iterated
  /\ Included(form.uk)
  /\ form.india.lines > 0
  /\ ~Included(form.india)
  /\ uk_results.energy_gwh = 5000
  /\ Last["Total Cost"] = W(12900000 * INR_PER_GBP)

\* the cell types a call computes: a positive share of a positive cell count
Computed(a) ==
  {t \in DOMAIN a.cell_mix :
     a.cell_mix[t] > 0 /\ a.lines * MAX_CELLS_PER_LINE * a.power_pct > 0}

\* total_cells * (mix_percentage / 100), in 1e-4 cells
CellsOfType(a, t) == a.lines * MAX_CELLS_PER_LINE * a.power_pct * a.cell_mix[t]

BomOf(t) == materials_data[t].materials

\* the computed cell types whose BOM lists the material k[1] with the unit k[2]
TypesUsing(a, k) ==
  {t \in Computed(a) : k[1] \in DOMAIN BomOf(t) /\ BomOf(t)[k[1]].unit = k[2]}

\* C13 (SpecSite): the returned bill of materials has one entry per material
\* name and unit used by a computed cell type, names with different units
\* apart, and its quantity is the sum over the cell types listing that name
\* with that unit of qty_per_cell * cells_of_type.
C13_BomAccumulatesPerNameAndUnit ==
  (Returned /\ ret.raised = "none") =>
    /\ DOMAIN ret.materials =
         UNION {{<<m, BomOf(t)[m].unit>> : m \in DOMAIN BomOf(t)} :
                  t \in Computed(args)}
    /\ \A k \in DOMAIN ret.materials :
         ret.materials[k] =
           WSumSet([t \in TypesUsing(args, k) |->
                      WMul(CellsOfType(args, t), BomOf(t)[k[1]].qty)],
                   TypesUsing(args, k))

\* the separator, listed per cell in m2 by both NMC types with different
\* quantities, holds more than either type alone accounts for
C13_Witness ==
  /\ Returned
  /\ ret.raised = "none"
  /\ TypesUsing(args, <<"Separator", "m2">>) = {"NMC Cell 1", "NMC Cell 2"}
  /\ \A t \in {"NMC Cell 1", "NMC Cell 2"} :
       /\ ~WIsZero(WMul(CellsOfType(args, t), BomOf(t)["Separator"].qty))
       /\ ret.materials[<<"Separator", "m2">>] #
            WMul(CellsOfType(args, t), BomOf(t)["Separator"].qty)

MixSum(cell_mix) == SumSet(cell_mix, DOMAIN cell_mix)

\* C14 (SpecSite): when the mix percentages sum to 100, the cell counts the
\* loop uses for the BOM of the computed cell types add up to total_cells and
\* their energy shares add up to energy_gwh (both sides in 1e-4).
C14_SharesSumToTotals ==
  (Returned /\ ret.raised = "none" /\ MixSum(args.cell_mix) = 100) =>
    /\ SumSet([t \in Computed(args) |->
                 cells_of_this_type(ret.total_cells, args.cell_mix[t])],
              Computed(args)) = ret.total_cells * 100
    /\ SumSet([t \in Computed(args) |->
                 energy_for_this_cell_type(ret.energy_gwh, args.cell_mix[t])],
              Computed(args)) = ret.energy_gwh * 100

\* three cell types share 1260 cells and 294 GWh as 50, 30 and 20 percent
C14_Witness ==
  /\ Returned
  /\ ret.raised = "none"
  /\ args.cell_mix = ("NMC Cell 1" :> 50) @@ ("NMC Cell 2" :> 30) @@ ("LFP" :> 20)
  /\ Computed(args) = {"NMC Cell 1", "NMC Cell 2", "LFP"}
  /\ ret.total_cells = 126000
  /\ ret.energy_gwh = 29400
  /\ cells_of_this_type(ret.total_cells, 50) = 6300000
  /\ cells_of_this_type(ret.total_cells, 30) = 3780000
  /\ cells_of_this_type(ret.total_cells, 20) = 2520000

OnlyLFP == ("NMC Cell 1" :> 0) @@ ("NMC Cell 2" :> 0) @@ ("LFP" :> 100)

LfpBase == materials_data["LFP"].base_co2_water_per_kwh

\* C15 (SpecSite): with a mix of 100% LFP the call returns, whatever silicon
\* and sourcing selections it is given, material_co2 = energy_gwh * 1e6 *
\* base_co2 / 1000 and total_water = energy_gwh * 1e6 * base_water / 1000
\* (1e-5 t on both sides), and the UK site with 2 lines at 100% has 100 GWh.
C15_LfpBaseImpactOnly ==
  (Returned /\ args.cell_mix = OnlyLFP) =>
    /\ ret.raised = "none"
    /\ ret.material_co2 =
         WMul(args.lines * max_gwh_per_line(args.country) * args.power_pct * 100,
              LfpBase.co2 * 100)
    /\ ret.total_water =
         WMul(args.lines * max_gwh_per_line(args.country) * args.power_pct * 100,
              LfpBase.water * 100)
    /\ (args.country = "UK" /\ args.lines = 2 /\ args.power_pct = 100) =>
         ret.energy_gwh = 100 * 100

\* UK, 2 lines, 100%, all LFP, called with a silicon selection and a nickel
\* sourcing selection for LFP: 100 GWh, 76.85 kg/kWh, 7,685,000 t
C15_Witness ==
  /\ Returned
  /\ args.cell_mix = OnlyLFP
  /\ args.country = "UK"
  /\ args.lines = 2
  /\ args.power_pct = 100
  /\ "LFP" \in DOMAIN args.silicon_pcts
  /\ "LFP" \in DOMAIN args.material_sourcing
  /\ ret.energy_gwh = 10000
  /\ ret.material_co2 = <<768500, 0>>
  /\ ret.total_water = <<331400, 0>>

\* C16 (SpecSite): every formula of ENERGY_MIXES gives exactly 0 at x = 0,
\* and a call whose energy_gwh is 0 returns energy_co2 = 0, so that its
\* total_co2 is its material_co2.
C16_ZeroEnergyZeroEnergyCo2 ==
  Returned =>
    /\ \A name \in ENERGY_MIX_NAMES : ENERGY_MIXES(name, 0) = WZero
    /\ (ret.raised = "none" /\ ret.energy_gwh = 0) =>
         /\ ret.energy_co2 = WZero
         /\ ret.total_co2 = ret.material_co2

\* lines at power 0 with a full mix: no energy, no energy CO2
C16_Witness ==
  /\ Returned
  /\ args.lines = 2
  /\ args.power_pct = 0
  /\ args.cell_mix = OnlyLFP
  /\ ret.raised = "none"
  /\ ret.energy_gwh = 0
  /\ ret.energy_co2 = WZero
  /\ ENERGY_MIXES(args.energy_mix_name, ret.energy_gwh) = WZero

PositiveShare(a) == {t \in DOMAIN a.cell_mix : a.cell_mix[t] > 0}

\* a dict without the entries of the cell types that have no positive share
OfPositiveShare(a, dict) == [t \in DOMAIN dict \cap PositiveShare(a) |-> dict[t]]

\* C18 (SpecSite): a cell type whose mix percentage is 0 is skipped: the call
\* returns what it returns without that type in the mix and without its
\* silicon and sourcing selections, and the bill of materials holds only
\* materials of the types with a positive share.
C18_ZeroShareIsSkipped ==
  Returned =>
    /\ ret = calculate_site_metrics(
               args.lines, args.power_pct,
               OfPositiveShare(args, args.cell_mix),
               OfPositiveShare(args, args.silicon_pcts),
               OfPositiveShare(args, args.material_sourcing),
               args.country, args.energy_mix_name)
    /\ ret.raised = "none" =>
         \A k \in DOMAIN ret.materials :
           \E t \in PositiveShare(args) : k[1] \in DOMAIN BomOf(t)

\* NMC Cell 1 has share 0, no silicon selection and a sourcing selection of
\* weights 110 and -10; NMC Cell 2 alone is computed
C18_Witness ==
  /\ Returned
  /\ args.lines > 0
  /\ args.power_pct > 0
  /\ args.cell_mix = ("NMC Cell 1" :> 0) @@ ("NMC Cell 2" :> 100) @@ ("LFP" :> 0)
  /\ "NMC Cell 1" \notin DOMAIN args.silicon_pcts
  /\ "NMC Cell 1" \in DOMAIN args.material_sourcing
  /\ \E c \in DOMAIN args.material_sourcing["NMC Cell 1"] :
       \E s \in DOMAIN args.material_sourcing["NMC Cell 1"][c] :
         args.material_sourcing["NMC Cell 1"][c][s] < 0
  /\ ret.raised = "none"
  /\ ret.materials # EmptyDict
  /\ <<"Al Foil (Cell 1)", "kg">> \notin DOMAIN ret.materials

\* the widgets of a site that give the arguments a
FormOf(a) ==
  SiteForm(a.lines, a.power_pct, a.cell_mix["NMC Cell 1"],
           a.cell_mix["NMC Cell 2"], a.cell_mix["LFP"],
           Get(a.silicon_pcts, "NMC Cell 1", DEFAULT_SILICON_PCT),
           Get(a.silicon_pcts, "NMC Cell 2", DEFAULT_SILICON_PCT),
           WidgetsUnique)

\* C19 (SpecSite): with lines = 0 the call returns, without raising, the
\* record of zeros with an empty materials map, whatever the mix, silicon and
\* sourcing arguments are; and the year loop gives a site that has no lines,
\* or a mix not summing to 100, the same record of zeros.
C19_NoProductionIsAllZero ==
  Returned =>
    /\ args.lines = 0 =>
         /\ ret.raised = "none"
         /\ ZeroRecord(ret)
         /\ ret.materials = EmptyDict
    /\ (args.lines = 0 \/ MixSum(args.cell_mix) # 100) =>
         LET site == site_results(FormOf(args), args.material_sourcing,
                                  args.country, args.energy_mix_name)
         IN  /\ site.raised = "none"
             /\ ZeroRecord(site)
             /\ site.materials = EmptyDict

\* no lines, full power, a mix of 60/30/5, a silicon selection that is not in
\* the table and a sourcing selection: the record of zeros
C19_Witness ==
  /\ Returned
  /\ args.lines = 0
  /\ args.power_pct = 210
  /\ MixSum(args.cell_mix) = 95
  /\ Get(args.silicon_pcts, "NMC Cell 2", DEFAULT_SILICON_PCT) = 7
  /\ args.material_sourcing # EmptyDict
  /\ ret = zero_results

AllowedSilicon == {SILICON_PCTS[n] : n \in 1..Len(SILICON_PCTS)}

\* the silicon percentage line 397 takes for a cell type
SiliconUsed(a, t) == Get(a.silicon_pcts, t, DEFAULT_SILICON_PCT)

\* C20 (SpecSite): a call that computes a silicon-bearing cell type with a
\* silicon percentage outside {3, 5, 10, 15, 20} fails instead of returning a
\* record, so every returned record was computed with percentages of that
\* set; and the selections the form's selectboxes give lie in that set.
C20_SiliconOnlyFromTheFiveValues ==
  Returned =>
    /\ (\E t \in Computed(args) \cap SiliconBearing :
          SiliconUsed(args, t) \notin AllowedSilicon)
         => ret.raised = "KeyError"
    /\ ret.raised = "none" =>
         \A t \in Computed(args) \cap SiliconBearing :
           SiliconUsed(args, t) \in AllowedSilicon
    /\ \A si1 \in AllowedSilicon, si2 \in AllowedSilicon :
         LET selection == silicon_selection(args.cell_mix["NMC Cell 1"],
                                            args.cell_mix["NMC Cell 2"], si1, si2)
         IN  /\ DOMAIN selection = PositiveShare(args) \cap SiliconBearing
             /\ \A t \in DOMAIN selection : selection[t] \in AllowedSilicon

\* NMC Cell 2 is produced with the selection 7: the call fails
C20_Witness ==
  /\ Returned
  /\ "NMC Cell 2" \in Computed(args)
  /\ SiliconUsed(args, "NMC Cell 2") = 7
  /\ ret.raised = "KeyError"

-----------------------------------------------------------------------------
(* The sourcing widgets and the combined materials table                    *)

UniqueMode == args.widgets.sourcing_mode = "Unique source per category"

\* the source the selectbox of a category holds
Selected(c) == args.widgets.selected[c]

\* C21 (SpecRender): in the unique mode every rendered cell type gets, for
\* each of the five categories, the weight 100 on the selected source and 0
\* on every other source of the category, so that the weights of a category
\* sum to 100, and calculate_material_sourcing_impact returns for the cell
\* type the sum over the categories of the selected source's CO2 and water
\* (1e-4 per kWh).
C21_UniqueModeAddsSelectedSources ==
  (pc = "returned" /\ UniqueMode) =>
    /\ DOMAIN first_ret =
         {t \in {"NMC Cell 1"} : args.mix_nmc1 > 0} \cup
         {t \in {"NMC Cell 2"} : args.mix_nmc2 > 0}
    /\ \A t \in DOMAIN first_ret :
         /\ DOMAIN first_ret[t] = DOMAIN MATERIAL_SOURCES
         /\ Cardinality(DOMAIN first_ret[t]) = 5
         /\ \A c \in DOMAIN first_ret[t] :
              /\ DOMAIN first_ret[t][c] = DOMAIN MATERIAL_SOURCES[c]
              /\ {s \in DOMAIN first_ret[t][c] : first_ret[t][c][s] = 100} =
                   {Selected(c)}
              /\ \A s \in DOMAIN first_ret[t][c] \ {Selected(c)} :
                   first_ret[t][c][s] = 0
              /\ GivenSum(first_ret[t][c]) = 100
         /\ ret[t] =
              <<SumSet([c \in DOMAIN MATERIAL_SOURCES |->
                          MATERIAL_SOURCES[c][Selected(c)].co2 * 100],
                       DOMAIN MATERIAL_SOURCES),
                SumSet([c \in DOMAIN MATERIAL_SOURCES |->
                          MATERIAL_SOURCES[c][Selected(c)].water * 100],
                       DOMAIN MATERIAL_SOURCES)>>

\* both NMC types rendered with the pyrometallurgy nickel of China (61.82,
\* -6.55), Freyr graphite (12.90, 0), manganese (1.00, 0.19), Freyr lithium
\* (9.88, 0) and the Indonesian cobalt (2.84, 2.35): 88.44 and -4.01
C21_Witness ==
  /\ pc = "returned"
  /\ UniqueMode
  /\ DOMAIN first_ret = {"NMC Cell 1", "NMC Cell 2"}
  /\ Selected("pCam Nickel") = N_PYRO_CHINA
  /\ first_ret["NMC Cell 2"]["pCam Nickel"][N_PYRO_CHINA] = 100
  /\ first_ret["NMC Cell 2"]["pCam Nickel"][N_CARBONYL] = 0
  /\ ret["NMC Cell 1"] = <<884400, -40100>>
  /\ ret["NMC Cell 2"] = <<884400, -40100>>

\* the results section has run to its end, or has stopped
Finished == pc \in {"done", "ValueError"}

\* C22: a run in which no year produced any material (no site had cells)
\* still completes the results section: the cumulative totals are built and
\* nothing is raised.
C22_ResultsCompleteWithoutMaterials ==
  (Finished /\ annual_materials_list = <<>>) =>
    /\ pc = "done"
    /\ cumulative_df # EmptyDict


\* the rows shown as the top ten materials (line 772)
top_materials == nlargest(materials_combined)

\* the cells of row i that come from a year's frame, not from fillna
FromYear(i) ==
  {n \in 1..Len(materials_combined[i].cells) :
     materials_combined[i].cells[n].Material # NaNFilled}

\* row i reads as the row of material k: every year's cell of the row holds
\* k, and the Total is the cumulative quantity of k
RowOf(i, k) ==
  /\ \A n \in FromYear(i) : materials_combined[i].cells[n].Material = k
  /\ materials_combined[i].Total = cumulative_materials[k]

\* C23: in the combined materials table, and so in its top ten rows, the
\* per-year quantities of a row all belong to one material key and the Total
\* of the row is the cumulative quantity of that material, also when the
\* years produce different sets or orders of materials.
C23_RowsHoldOneMaterial ==
  pc = "done" =>
    \A i \in top_materials :
      \E k \in DOMAIN cumulative_materials : RowOf(i, k)
=============================================================================
